---- MODULE Spec2Model ----
(***************************************************************************)
(* Model of src/list_course_assignments.py (the live revision, lines       *)
(* 372-546): the omegaUp course downloader.  main() logs in, then walks    *)
(* COURSE_ALIASES -> assignments -> problems, mirrors every problem        *)
(* archive under Courses/ and finally writes problems.json.                *)
(*                                                                         *)
(* The remote server and the disk are the environment: every HTTP answer   *)
(* and every per-item disk failure is chosen with \E from the small sets   *)
(* below.  Each HTTP call is assumed to return or raise (the code sets no  *)
(* timeout), and the two top-level file operations of main() (creating     *)
(* Courses/ and writing problems.json) are assumed to succeed.             *)
(***************************************************************************)
EXTENDS Naturals, Sequences, FiniteSets, TLC

VARIABLES
    pc,            \* position of main(): the next step it takes
    COOKIES,       \* module global COOKIES (None until login succeeds)
    uncaught,      \* None, or the function whose exception left main() uncaught
    requests,      \* set of API endpoints that have been requested so far
    login_response,\* history: the answer to the login request (NoResponse before it)
    dirs,          \* directories on disk (paths are sequences of names)
    files,         \* files on disk: path -> content
    all_problems,  \* main()'s list all_problems
    ci,            \* number of entries of COURSE_ALIASES whose iteration has begun
    assignments,   \* main()'s list assignments (of the current course)
    ai,            \* number of entries of assignments whose iteration has begun
    problems,      \* main()'s list problems (of the current assignment)
    pi,            \* number of entries of problems whose iteration has begun
    attempted,     \* history: course aliases handed to get_course_details, in order
    synced,        \* history: manifest entries of the problems downloaded and extracted
    last,          \* history: the call of download_and_unzip made by the step
                   \*          just taken (NoCall if that step made none)
    served,        \* history: number of summaries the server has handed out
    writes         \* history: number of times problems.json has been written

vars == <<pc, COOKIES, uncaught, requests, login_response, dirs, files, all_problems, ci,
          assignments, ai, problems, pi, attempted, synced, last, served, writes>>

None == "None"

----------------------------------------------------------------------------
(* Bounds of the model.                                                    *)

NumCourses     == 2   \* length of the configured list COURSE_ALIASES
MaxAssignments == 2   \* longest assignment list the server returns
MaxProblems    == 2   \* longest problem list the server returns
MaxSummaries   == 3   \* assignment and problem summaries the server hands out in one run

----------------------------------------------------------------------------
(* Configuration.                                                          *)

BASE_COURSE_FOLDER == "Courses"

CourseNames == <<"omi-public-course", "course-b", "course-c", "course-d">>

Min(a, b) == IF a < b THEN a ELSE b

\* The list the user edits in the source; the shipped list has one alias.
COURSE_ALIASES == SubSeq(CourseNames, 1, Min(NumCourses, Len(CourseNames)))

----------------------------------------------------------------------------
(* Names and sanitize_filename.  TLC cannot take a string apart, so the    *)
(* characters of every alias the server uses are tabulated; the function   *)
(* itself is computed character by character as in the source.             *)

Chars(name) ==
    CASE name = "p1"   -> <<"p", "1">>
      [] name = " p.2" -> <<" ", "p", ".", "2">>

ProblemAliases == {"p1", " p.2"}

isalnum(c) == c \in {"p", "1", "2"}

RECURSIVE lstrip(_)
lstrip(s) == IF s # <<>> /\ Head(s) = " " THEN lstrip(Tail(s)) ELSE s

RECURSIVE rstrip(_)
rstrip(s) ==
    IF s # <<>> /\ s[Len(s)] = " " THEN rstrip(SubSeq(s, 1, Len(s) - 1)) ELSE s

strip(s) == rstrip(lstrip(s))

RECURSIVE join(_)
join(s) == IF s = <<>> THEN "" ELSE Head(s) \o join(Tail(s))

KeepChar(c) == isalnum(c) \/ c \in {" ", "-", "_"}

sanitize_filename(name) == join(strip(SelectSeq(Chars(name), KeepChar)))

\* os.path.join of a path and one relative name.
path_join(path, name) == Append(path, name)

\* os.makedirs(path, exist_ok=True): the directory and all its parents.
makedirs(path, d) == d \cup {SubSeq(path, 1, k) : k \in 1..Len(path)}

\* open(path, "w") followed by a complete write.
write_file(path, content, f) ==
    [q \in (DOMAIN f) \cup {path} |-> IF q = path THEN content ELSE f[q]]

\* os.remove(path).
remove_file(path, f) == [q \in (DOMAIN f) \ {path} |-> f[q]]

----------------------------------------------------------------------------
(* The environment: what the server may answer and what it may serve.      *)

NoBody == [empty |-> TRUE]

NoResponse == [pending |-> TRUE]

\* A requests.Response; error = TRUE stands for a transport failure, where
\* requests raises a RequestException instead of returning a response.
\* complete = FALSE: the connection breaks while the body is streamed.
Http(status, body) ==
    [error |-> FALSE, status_code |-> status, body |-> body, complete |-> TRUE]

TransportError ==
    [error |-> TRUE, status_code |-> 0, body |-> NoBody, complete |-> FALSE]

Truncated(body) ==
    [error |-> FALSE, status_code |-> 200, body |-> body, complete |-> FALSE]

\* dict.get(key): None when the key is missing.
Get(d, key) == IF key \in DOMAIN d THEN d[key] ELSE None

SessionCookies == "ouat=token"

LoginResponses ==
    { TransportError,
      Http(401, [status |-> "error"]),
      Http(200, [status |-> "error"]),
      Http(200, [error |-> "invalid"]),
      Http(200, [status |-> "ok"]) }

CourseDetailsResponses(course_alias) ==
    { TransportError,
      Http(500, NoBody),
      Http(200, [alias |-> course_alias, name |-> "Course"]) }

\* Assignment summaries of a listing; the last two lack a key main() reads.
AssignmentSummaries ==
    { [alias |-> "hw1", name |-> "Homework 1"],
      [alias |-> "hw2", name |-> "Homework 2"],
      [name |-> "Untitled"],
      [alias |-> "hw2"] }

\* Problem summaries of an assignment; the last one lacks the alias.
ProblemSummaries ==
    { [alias |-> a] : a \in ProblemAliases } \cup { [letter |-> "A"] }

SeqsUpTo(S, n) == UNION { [1..k -> S] : k \in 0..n }

AssignmentListResponses(n) ==
    { TransportError, Http(500, NoBody), Http(200, [status |-> "ok"]) }
    \cup { Http(200, [assignments |-> l]) :
             l \in SeqsUpTo(AssignmentSummaries, Min(MaxAssignments, n)) }

AssignmentDetailsResponses(n) ==
    { TransportError, Http(500, NoBody), Http(200, [name |-> "Homework"]) }
    \cup { Http(200, [problems |-> l]) :
             l \in SeqsUpTo(ProblemSummaries, Min(MaxProblems, n)) }

\* Problem archives.  The members are opaque to the program except that a
\* settings.json may be among them.
Statement == [data |-> "statement"]

ArchiveSettings == [alias |-> "original", title |-> "Original", limits |-> "1s"]

Archive(corrupt, members) == [corrupt |-> corrupt, members |-> members]

Archives ==
    { Archive(TRUE,  [n \in {"statement.md"} |-> Statement]),
      Archive(FALSE, [n \in {"statement.md"} |-> Statement]),
      Archive(FALSE, [n \in {"statement.md", "settings.json"} |->
                        IF n = "settings.json" THEN ArchiveSettings ELSE Statement]) }

DownloadResponses ==
    { TransportError, Http(404, NoBody), Http(500, NoBody),
      Truncated(Archive(TRUE, [n \in {"statement.md"} |-> Statement])) }
    \cup { Http(200, z) : z \in Archives }

----------------------------------------------------------------------------
(* The functions of the program.  Each takes the answer of the server and  *)
(* the state of the disk and returns what it raises and what it leaves.    *)

\* response.raise_for_status()
raise_for_status(response) == response.status_code >= 400

\* Mutant of login: the status field of the answer is not looked at.
login_unchecked(response) ==
    IF response.error \/ raise_for_status(response)
    THEN [raised |-> TRUE, COOKIES |-> None]
    ELSE [raised |-> FALSE, COOKIES |-> SessionCookies]

\* login(): the new value of COOKIES and whether an exception leaves it.
login(response) ==
    IF response.error \/ raise_for_status(response)
    THEN [raised |-> TRUE, COOKIES |-> None]
    ELSE IF Get(response.body, "status") # "ok"
    THEN [raised |-> TRUE, COOKIES |-> None]
    ELSE [raised |-> FALSE, COOKIES |-> SessionCookies]

\* get_json(): raises on a transport error and on a 4xx/5xx status.
get_json(response) ==
    IF response.error \/ raise_for_status(response)
    THEN [raised |-> TRUE, json |-> NoBody]
    ELSE [raised |-> FALSE, json |-> response.body]

\* get_course_details(): disk_ok = FALSE makes open() of the settings file fail.
get_course_details(course_alias, course_base_folder, response, disk_ok, d, f) ==
    LET details == get_json(response)
        course_folder == path_join(course_base_folder, course_alias)
        course_settings_path == path_join(course_folder, "course_settings.json")
    IN  IF details.raised
        THEN [raised |-> TRUE, dirs |-> d, files |-> f]
        ELSE IF ~disk_ok
        THEN [raised |-> TRUE, dirs |-> makedirs(course_folder, d), files |-> f]
        ELSE [raised |-> FALSE, dirs |-> makedirs(course_folder, d),
              files |-> write_file(course_settings_path, details.json, f)]

\* get_assignments(): the "assignments" key of the listing (KeyError if absent).
get_assignments(response) ==
    LET listing == get_json(response)
    IN  IF listing.raised \/ "assignments" \notin DOMAIN listing.json
        THEN [raised |-> TRUE, assignments |-> <<>>]
        ELSE [raised |-> FALSE, assignments |-> listing.json.assignments]

\* get_assignment_details()
get_assignment_details(response) == get_json(response)

\* json.dump(details, f) of an assignment (lines 519-520).  The file holds the
\* whole answer; the model keeps of it only which keys the answer had.
snapshot(details) == [keys |-> DOMAIN details]

\* zip_ref.extractall(problem_folder)
extractall(archive, problem_folder, f) ==
    LET new == { path_join(problem_folder, n) : n \in DOMAIN archive.members }
    IN  [q \in (DOMAIN f) \cup new |->
            IF q \in new THEN archive.members[q[Len(q)]] ELSE f[q]]

\* Mutant of download_and_unzip: the problem folder is named by the alias as
\* given (as the archive file is), not by its sanitized form.
download_and_unzip_raw_folder(problem_alias, assignment_folder, response, disk_ok, d, f) ==
    LET problem_folder == path_join(assignment_folder, problem_alias)
        zip_path == path_join(problem_folder, problem_alias \o ".zip")
        d1 == makedirs(problem_folder, d)
        f1 == write_file(zip_path, response.body, f)
    IN  IF response.error \/ response.status_code = 404 \/ raise_for_status(response)
        THEN [raised |-> None, dirs |-> d, files |-> f]
        ELSE IF ~disk_ok
        THEN [raised |-> "OSError", dirs |-> d1, files |-> f]
        ELSE IF ~response.complete \/ response.body.corrupt
        THEN [raised |-> None, dirs |-> d1, files |-> f1]
        ELSE [raised |-> None, dirs |-> d1,
              files |-> remove_file(zip_path, extractall(response.body, problem_folder, f1))]

\* Mutant of download_and_unzip: the archive is not removed after extraction.
download_and_unzip_keeps_archive(problem_alias, assignment_folder, response, disk_ok, d, f) ==
    LET problem_folder == path_join(assignment_folder, sanitize_filename(problem_alias))
        zip_path == path_join(problem_folder, problem_alias \o ".zip")
        d1 == makedirs(problem_folder, d)
        f1 == write_file(zip_path, response.body, f)
    IN  IF response.error \/ response.status_code = 404 \/ raise_for_status(response)
        THEN [raised |-> None, dirs |-> d, files |-> f]
        ELSE IF ~disk_ok
        THEN [raised |-> "OSError", dirs |-> d1, files |-> f]
        ELSE IF ~response.complete \/ response.body.corrupt
        THEN [raised |-> None, dirs |-> d1, files |-> f1]
        ELSE [raised |-> None, dirs |-> d1,
              files |-> extractall(response.body, problem_folder, f1)]

\* download_and_unzip(): raised names the exception that leaves the function
\* (None: it returns normally).  disk_ok = FALSE makes open() of the archive
\* file fail with OSError, which the function does not catch.
download_and_unzip(problem_alias, assignment_folder, response, disk_ok, d, f) ==
    LET problem_folder == path_join(assignment_folder, sanitize_filename(problem_alias))
        zip_path == path_join(problem_folder, problem_alias \o ".zip")
        d1 == makedirs(problem_folder, d)
        f1 == write_file(zip_path, response.body, f)
    IN  IF response.error
        THEN [raised |-> None, dirs |-> d, files |-> f]       \* except RequestException
        ELSE IF response.status_code = 404
        THEN [raised |-> None, dirs |-> d, files |-> f]       \* warning, return
        ELSE IF raise_for_status(response)
        THEN [raised |-> None, dirs |-> d, files |-> f]       \* except RequestException
        ELSE IF ~disk_ok
        THEN [raised |-> "OSError", dirs |-> d1, files |-> f]
        ELSE IF ~response.complete
        THEN [raised |-> None, dirs |-> d1, files |-> f1]     \* except RequestException
        ELSE IF response.body.corrupt
        THEN [raised |-> None, dirs |-> d1, files |-> f1]     \* except BadZipFile
        ELSE [raised |-> None, dirs |-> d1,
              files |-> remove_file(zip_path, extractall(response.body, problem_folder, f1))]

----------------------------------------------------------------------------
(* main(): where control goes when an iteration ends.  The counters ci,    *)
(* ai and pi are the numbers of entries the three for loops have taken.   *)

\* The for loop over COURSE_ALIASES (line 496): next alias, or the final write.
AfterCourse(c) == IF c < Len(COURSE_ALIASES) THEN "course" ELSE "write"

\* The for loop over assignments (line 508).
AfterAssignment(a, c) == IF a < Len(assignments) THEN "assignment" ELSE AfterCourse(c)

\* The for loop over problems (line 524).
AfterProblem(p, a, c) == IF p < Len(problems) THEN "problem" ELSE AfterAssignment(a, c)

\* Mutant of course_except: the course's exception is not caught.
course_except_propagates(c) == "aborted"

\* except Exception of the course (lines 536-537): log, next course.
course_except(c) == AfterCourse(c)

\* except Exception of the assignment (lines 532-533): log, next assignment.
assignment_except(a, c) == AfterAssignment(a, c)

\* Mutant of problem_except: the handler raises again and nothing catches it.
problem_except_reraises(problem, p, a, c) == "aborted"

\* except Exception of the problem (lines 529-530).  The log message reads
\* problem['alias']: for a summary without alias the handler itself raises
\* KeyError, which the assignment's handler catches.
problem_except(problem, p, a, c) ==
    IF "alias" \in DOMAIN problem THEN AfterProblem(p, a, c) ELSE assignment_except(a, c)

\* A list and its counter are dropped when control leaves the loop that
\* reads them: main() assigns each of them anew before it reads it again.
Goto(target, asgs, a, probs, p) ==
    /\ pc' = target
    /\ assignments' = IF target \in {"assignment", "problem"} THEN asgs ELSE <<>>
    /\ ai' = IF target \in {"assignment", "problem"} THEN a ELSE 0
    /\ problems' = IF target = "problem" THEN probs ELSE <<>>
    /\ pi' = IF target = "problem" THEN p ELSE 0

NoCall == [called |-> FALSE]

\* The archive of a response was downloaded and extracted.
Extracted(response, disk_ok) ==
    /\ ~response.error
    /\ response.status_code >= 200 /\ response.status_code < 300
    /\ response.complete
    /\ disk_ok
    /\ ~response.body.corrupt

\* A download meets a failing disk only once it has a body to write.
DownloadCases ==
    { <<r, TRUE>> : r \in DownloadResponses }
    \cup { <<Http(200, Archive(FALSE, [n \in {"statement.md"} |-> Statement])), FALSE>> }

----------------------------------------------------------------------------
(* The steps of main().                                                    *)

Init ==
    /\ pc = "start"
    /\ COOKIES = None
    /\ uncaught = None
    /\ requests = {}
    /\ login_response = NoResponse
    /\ dirs = {}
    /\ files = [q \in {} |-> NoBody]
    /\ all_problems = <<>>
    /\ ci = 0
    /\ assignments = <<>>
    /\ ai = 0
    /\ problems = <<>>
    /\ pi = 0
    /\ attempted = <<>>
    /\ synced = <<>>
    /\ last = NoCall
    /\ served = 0
    /\ writes = 0

\* Line 490: handle_input() reads the credentials and the base URL.
HandleInput ==
    /\ pc = "start"
    /\ pc' = "login"
    /\ UNCHANGED <<COOKIES, uncaught, requests, login_response, dirs, files, all_problems, ci,
                   assignments, ai, problems, pi, attempted, synced, last,
                   served, writes>>

\* Line 491: login(); an exception it raises is caught nowhere.
Login ==
    /\ pc = "login"
    /\ \E response \in LoginResponses :
         LET r == login(response)
         IN  /\ COOKIES' = r.COOKIES
             /\ pc' = IF r.raised THEN "aborted" ELSE "prepare"
             /\ uncaught' = IF r.raised THEN "login" ELSE None
             /\ login_response' = response
    /\ requests' = requests \cup {"/api/user/login"}
    /\ UNCHANGED <<dirs, files, all_problems, ci, assignments, ai, problems, pi,
                   attempted, synced, last, served, writes>>

\* Lines 493-494: the base folder and the empty manifest.
Prepare ==
    /\ pc = "prepare"
    /\ dirs' = makedirs(<<BASE_COURSE_FOLDER>>, dirs)
    /\ all_problems' = <<>>
    /\ pc' = AfterCourse(0)
    /\ UNCHANGED <<COOKIES, uncaught, requests, login_response, files, ci, assignments, ai,
                   problems, pi, attempted, synced, last, served, writes>>

\* Lines 496-506 and 536-537: one iteration of the course loop up to the
\* assignment loop.  The listing is requested only if get_course_details
\* returned.
ProcessCourse ==
    /\ pc = "course"
    /\ LET course_alias == COURSE_ALIASES[ci + 1]
       IN  \E response \in CourseDetailsResponses(course_alias),
              disk_ok \in BOOLEAN :
             LET r == get_course_details(course_alias, <<BASE_COURSE_FOLDER>>,
                                         response, disk_ok, dirs, files)
             IN  /\ ci' = ci + 1
                 /\ attempted' = Append(attempted, course_alias)
                 /\ dirs' = r.dirs
                 /\ files' = r.files
                 /\ IF r.raised
                    THEN /\ requests' = requests \cup {"/api/course/details/"}
                         /\ Goto(course_except(ci + 1), <<>>, 0, <<>>, 0)
                         /\ UNCHANGED served
                    ELSE \E listing \in AssignmentListResponses(MaxSummaries - served) :
                           LET g == get_assignments(listing)
                           IN  /\ requests' = requests \cup {"/api/course/details/",
                                                            "/api/course/listAssignments/"}
                               /\ served' = served + Len(g.assignments)
                               /\ IF g.raised
                                  THEN Goto(course_except(ci + 1), <<>>, 0, <<>>, 0)
                                  ELSE IF g.assignments = <<>>
                                  THEN Goto(AfterCourse(ci + 1), <<>>, 0, <<>>, 0)  \* continue
                                  ELSE Goto("assignment", g.assignments, 0, <<>>, 0)
    /\ last' = NoCall
    /\ UNCHANGED <<COOKIES, uncaught, login_response, all_problems, synced, writes>>

\* Lines 508-522 and 532-533: one iteration of the assignment loop up to the
\* problem loop.  Lines 509-510 are outside the assignment's try.
ProcessAssignment ==
    /\ pc = "assignment"
    /\ LET assignment == assignments[ai + 1]
           course_alias == COURSE_ALIASES[ci]
       IN  IF "alias" \notin DOMAIN assignment \/ "name" \notin DOMAIN assignment
           THEN /\ Goto(course_except(ci), assignments, ai + 1, <<>>, 0)  \* KeyError
                /\ UNCHANGED <<requests, dirs, files, served>>
           ELSE \E response \in AssignmentDetailsResponses(MaxSummaries - served),
                   disk_ok \in BOOLEAN :
                  LET details == get_assignment_details(response)
                      course_folder == path_join(<<BASE_COURSE_FOLDER>>, course_alias)
                      assignment_folder == path_join(course_folder, assignment.alias)
                      assignment_settings_path ==
                          path_join(assignment_folder, "assignment_settings.json")
                      listed == IF "problems" \in DOMAIN details.json
                                THEN details.json.problems ELSE <<>>
                  IN  /\ requests' = requests \cup {"/api/course/assignmentDetails/"}
                      /\ IF details.raised
                         THEN /\ Goto(assignment_except(ai + 1, ci),
                                      assignments, ai + 1, <<>>, 0)
                              /\ UNCHANGED <<dirs, files, served>>
                         ELSE IF ~disk_ok
                         THEN /\ Goto(assignment_except(ai + 1, ci),
                                      assignments, ai + 1, <<>>, 0)
                              /\ dirs' = makedirs(assignment_folder, dirs)
                              /\ UNCHANGED <<files, served>>
                         ELSE /\ dirs' = makedirs(assignment_folder, dirs)
                              /\ files' = write_file(assignment_settings_path,
                                                     snapshot(details.json), files)
                              /\ served' = served + Len(listed)
                              /\ Goto(IF listed = <<>>
                                      THEN AfterAssignment(ai + 1, ci) ELSE "problem",
                                      assignments, ai + 1, listed, 0)
    /\ last' = NoCall
    /\ UNCHANGED <<COOKIES, uncaught, login_response, all_problems, ci, attempted,
                   synced, writes>>

\* Lines 524-530: one iteration of the problem loop.
ProcessProblem ==
    /\ pc = "problem"
    /\ LET problem == problems[pi + 1]
           course_alias == COURSE_ALIASES[ci]
           assignment_alias == assignments[ai].alias
           assignment_folder ==
               path_join(path_join(<<BASE_COURSE_FOLDER>>, course_alias), assignment_alias)
       IN  IF "alias" \notin DOMAIN problem
           THEN /\ Goto(problem_except(problem, pi + 1, ai, ci),       \* KeyError
                        assignments, ai, problems, pi + 1)
                /\ last' = NoCall
                /\ UNCHANGED <<requests, dirs, files, all_problems, synced>>
           ELSE \E case \in DownloadCases :
                  LET response == case[1]
                      disk_ok == case[2]
                      r == download_and_unzip(problem.alias, assignment_folder,
                                              response, disk_ok, dirs, files)
                      rel_path == <<BASE_COURSE_FOLDER, course_alias, assignment_alias,
                                    sanitize_filename(problem.alias)>>
                  IN  /\ requests' = requests \cup {"/api/problem/download/"}
                      /\ dirs' = r.dirs
                      /\ files' = r.files
                      /\ last' = [called |-> TRUE, problem_alias |-> problem.alias,
                                  assignment_folder |-> assignment_folder,
                                  response |-> response, disk_ok |-> disk_ok,
                                  raised |-> r.raised, dirs_before |-> dirs,
                                  entries_before |-> Len(all_problems),
                                  remaining |-> Len(problems) - (pi + 1)]
                      /\ synced' = IF Extracted(response, disk_ok)
                                   THEN Append(synced, [path |-> rel_path])
                                   ELSE synced
                      /\ IF r.raised = None
                         THEN /\ all_problems' = Append(all_problems, [path |-> rel_path])
                              /\ Goto(AfterProblem(pi + 1, ai, ci),
                                      assignments, ai, problems, pi + 1)
                         ELSE /\ UNCHANGED all_problems
                              /\ Goto(problem_except(problem, pi + 1, ai, ci),
                                      assignments, ai, problems, pi + 1)
    /\ UNCHANGED <<COOKIES, uncaught, login_response, ci, attempted, served, writes>>

\* Lines 540-542: problems.json, then main() returns.
WriteManifest ==
    /\ pc = "write"
    /\ files' = write_file(<<"problems.json">>, [problems |-> all_problems], files)
    /\ writes' = writes + 1
    /\ pc' = "done"
    /\ last' = NoCall
    /\ UNCHANGED <<COOKIES, uncaught, requests, login_response, dirs, all_problems,
                   ci, assignments, ai, problems, pi, attempted, synced, served>>

Next ==
    \/ HandleInput
    \/ Login
    \/ Prepare
    \/ ProcessCourse
    \/ ProcessAssignment
    \/ ProcessProblem
    \/ WriteManifest

Spec == Init /\ [][Next]_vars

\* main() is one sequential thread: whenever a step is possible it is taken.
FairSpec == Spec /\ WF_vars(Next)

----------------------------------------------------------------------------
(* Properties.                                                             *)

ManifestPath == <<"problems.json">>

Ended == pc \in {"done", "aborted"}

\* What the latest call of download_and_unzip was about.
LastProblemFolder ==
    path_join(last.assignment_folder, sanitize_filename(last.problem_alias))

LastZipPath == path_join(LastProblemFolder, last.problem_alias \o ".zip")

LastSettingsPath == path_join(LastProblemFolder, "settings.json")

\* The download was answered 2xx and its body arrived whole.
Downloaded(response) ==
    /\ ~response.error
    /\ response.status_code >= 200 /\ response.status_code < 300
    /\ response.complete

\* The download failed with a transport error or a status that is neither
\* 2xx nor 404.
DownloadFailed(response) ==
    \/ response.error
    \/ ~response.complete
    \/ /\ ~(response.status_code >= 200 /\ response.status_code < 300)
       /\ response.status_code # 404

\* C1: when main() has returned, problems.json lists exactly the problems
\* that were downloaded and extracted during the run, one entry each, in the
\* order they were processed; a problem whose download failed or whose
\* archive was corrupt has no entry.
C1_ManifestListsSyncedProblems ==
    pc = "done" => files[ManifestPath].problems = synced

\* C2: after download_and_unzip was answered 404 for a problem, no directory
\* was created, all_problems got no entry for it, and the problem loop goes
\* on with the siblings that remain.
C2_NotFoundLeavesNoTrace ==
    (last.called /\ ~last.response.error /\ last.response.status_code = 404) =>
        /\ dirs = last.dirs_before
        /\ Len(all_problems) = last.entries_before
        /\ (last.remaining > 0 => pc = "problem")

\* C3: the course aliases are attempted in the listed order, and a run that
\* passed login ends only after every alias of COURSE_ALIASES was attempted,
\* whichever courses failed.
C3_EveryCourseAttempted ==
    /\ attempted = SubSeq(COURSE_ALIASES, 1, ci)
    /\ (COOKIES # None /\ (Ended \/ pc = "write")) => attempted = COURSE_ALIASES

\* Witness of C3: the run ended although the first course failed at its
\* details request and the last one at its settings file.
C3_Witness ==
    /\ pc = "done"
    /\ <<BASE_COURSE_FOLDER, COURSE_ALIASES[1]>> \notin dirs
    /\ <<BASE_COURSE_FOLDER, COURSE_ALIASES[Len(COURSE_ALIASES)]>> \in dirs
    /\ <<BASE_COURSE_FOLDER, COURSE_ALIASES[Len(COURSE_ALIASES)], "course_settings.json">>
           \notin DOMAIN files
    /\ attempted = COURSE_ALIASES

\* C4: an iteration of the problem loop never ends the loop while entries of
\* the problem list remain, whatever the iteration raised.
C4_ProblemLoopNeverAborted ==
    [][(pc = "problem" /\ pi + 1 < Len(problems)) => (pc' = "problem" /\ pi' = pi + 1)]_vars

\* C5: a step inside the assignment loop never ends the loop while entries
\* of the assignment list remain, whatever the step raised.
C5_AssignmentLoopNeverAborted ==
    [][(\/ pc = "assignment" /\ ai + 1 < Len(assignments)
        \/ pc = "problem" /\ ai < Len(assignments))
       => pc' \in {"assignment", "problem"}]_vars

\* C6: when the download fails with a transport error or a status that is
\* neither 2xx nor 404, download_and_unzip does not return normally: an
\* exception leaves it.
C6_DownloadFailureRaises ==
    (last.called /\ DownloadFailed(last.response)) => last.raised # None

\* C7: problems.json is written at most once, only when the traversal of all
\* courses has ended and as the last step of main(); and every run that
\* passed login reaches that step.
C7_ManifestWrittenOnceAtEnd ==
    /\ [](writes <= 1)
    /\ []((ManifestPath \in DOMAIN files) <=> (writes = 1))
    /\ [](writes = 1 => (pc = "done" /\ ci = Len(COURSE_ALIASES)))
    /\ [](COOKIES # None => <>(pc = "done" /\ writes = 1))

\* Witness of C7: the manifest was written after a run in which a course, an
\* assignment and a problem failed.
C7_Witness ==
    /\ pc = "done" /\ writes = 1
    /\ <<BASE_COURSE_FOLDER, COURSE_ALIASES[1]>> \notin dirs
    /\ \E a \in {"hw1", "hw2"} :
         /\ <<BASE_COURSE_FOLDER, COURSE_ALIASES[2], a>> \in dirs
         /\ <<BASE_COURSE_FOLDER, COURSE_ALIASES[2], a, "assignment_settings.json">>
                \notin DOMAIN files
    /\ \E a \in {"hw1", "hw2"} :
         /\ <<BASE_COURSE_FOLDER, COURSE_ALIASES[2], a, "p1">> \in dirs
         /\ \A q \in DOMAIN files :
              SubSeq(q, 1, Min(4, Len(q))) # <<BASE_COURSE_FOLDER, COURSE_ALIASES[2], a, "p1">>

\* The login request was answered and the status field of the answer is
\* not "ok".
LoginRejected ==
    /\ login_response # NoResponse
    /\ ~login_response.error
    /\ Get(login_response.body, "status") # "ok"

\* C8: when the status field of the login answer is not "ok" the run is over
\* at once: an exception of login() leaves main(), no cookies are stored, no
\* other request was sent, no directory or file exists; and no exception
\* other than login()'s ever leaves main().
C8_LoginFailureAbortsRun ==
    /\ LoginRejected =>
          /\ pc = "aborted"
          /\ uncaught = "login"
          /\ COOKIES = None
          /\ requests = {"/api/user/login"}
          /\ dirs = {}
          /\ DOMAIN files = {}
          /\ writes = 0
    /\ (pc = "aborted" \/ uncaught # None) => (pc = "aborted" /\ uncaught = "login")

\* Witness of C8: a 200 answer whose status is "error" has ended the run.
C8_Witness ==
    /\ LoginRejected
    /\ login_response.status_code = 200
    /\ pc = "aborted"

\* C9: after download_and_unzip has returned for a download that succeeded,
\* the archive file <problem_alias>.zip is in the problem's folder exactly
\* when the archive was corrupt.
C9_ArchiveKeptIffCorrupt ==
    (last.called /\ last.raised = None /\ Downloaded(last.response)) =>
        ((LastZipPath \in DOMAIN files) <=> last.response.body.corrupt)

\* Witness of C9: an archive was extracted and is gone from the folder.
C9_Witness ==
    /\ last.called /\ last.raised = None
    /\ Downloaded(last.response) /\ ~last.response.body.corrupt
    /\ path_join(LastProblemFolder, "statement.md") \in DOMAIN files
    /\ LastZipPath \notin DOMAIN files

\* C10: after a problem was synced, a settings.json in its folder has alias
\* and title equal to the requested problem alias, and its other fields are
\* those of the archive.
C10_SettingsCarryRequestedAlias ==
    (last.called /\ Extracted(last.response, last.disk_ok)
                 /\ LastSettingsPath \in DOMAIN files) =>
        /\ files[LastSettingsPath].alias = last.problem_alias
        /\ files[LastSettingsPath].title = last.problem_alias
        /\ files[LastSettingsPath].limits = ArchiveSettings.limits

\* The aliases an assignment summary may carry.
AssignmentAliases == { s.alias : s \in { t \in AssignmentSummaries : "alias" \in DOMAIN t } }

\* The folder of the assignment whose problem loop is running.
CurrentAssignmentFolder ==
    <<BASE_COURSE_FOLDER, COURSE_ALIASES[ci], assignments[ai].alias>>

\* Every directory on disk is Courses, Courses/<course>, Courses/<course>/
\* <assignment> or Courses/<course>/<assignment>/<problem folder>, the course
\* being one whose iteration has begun, and lies in its parent directory.
LayoutOfDirs ==
    \A d \in dirs :
        /\ Len(d) \in 1..4
        /\ d[1] = BASE_COURSE_FOLDER
        /\ Len(d) >= 2 => /\ \E k \in 1..ci : d[2] = COURSE_ALIASES[k]
                          /\ SubSeq(d, 1, Len(d) - 1) \in dirs
        /\ Len(d) >= 3 => d[3] \in AssignmentAliases
        /\ Len(d) = 4 => d[4] \in { sanitize_filename(a) : a \in ProblemAliases }

\* Every manifest entry names a fourth-level path below an assignment
\* directory that exists.
LayoutOfManifest ==
    \A i \in 1..Len(all_problems) :
        LET path == all_problems[i].path
        IN  /\ Len(path) = 4
            /\ SubSeq(path, 1, 3) \in dirs

\* The entry main() appended after a call of download_and_unzip names a child
\* of the assignment folder the call was given, which is the folder of the
\* course and assignment being processed; if the download succeeded, that
\* child is the directory the call created and put the archive's files in.
ManifestNamesDestination ==
    (last.called /\ last.raised = None) =>
        LET path == all_problems[Len(all_problems)].path
        IN  /\ Len(all_problems) = last.entries_before + 1
            /\ Len(path) = 4
            /\ SubSeq(path, 1, 3) = last.assignment_folder
            /\ last.assignment_folder[1] = BASE_COURSE_FOLDER
            /\ last.assignment_folder[2] = COURSE_ALIASES[ci]
            /\ last.assignment_folder[3] \in AssignmentAliases
            /\ Downloaded(last.response) =>
                  /\ path \in dirs
                  /\ IF last.response.body.corrupt
                     THEN path_join(path, last.problem_alias \o ".zip") \in DOMAIN files
                     ELSE \A n \in DOMAIN last.response.body.members :
                            path_join(path, n) \in DOMAIN files

\* A step creates assignment and problem directories only for the course and
\* the assignment it is processing.
CreatesInsideCurrent ==
    \A d \in dirs' \ dirs :
        /\ Len(d) >= 3 =>
              /\ pc \in {"assignment", "problem"}
              /\ d[2] = COURSE_ALIASES[ci]
        /\ Len(d) = 3 => (pc = "assignment" /\ d[3] = assignments[ai + 1].alias)
        /\ Len(d) = 4 => (pc = "problem" /\ SubSeq(d, 1, 3) = CurrentAssignmentFolder)

\* C11: in every reachable state the output tree has the nesting layout:
\* an assignment directory is Courses/<course_alias>/<assignment_alias> of
\* the course being processed, a problem directory is a child of the
\* assignment directory being processed, and a manifest entry's path is
\* Courses/<course_alias>/<assignment_alias>/<problem folder>, the directory
\* download_and_unzip extracted that problem into.
C11_OutputTreeIsNested ==
    /\ [](LayoutOfDirs /\ LayoutOfManifest /\ ManifestNamesDestination)
    /\ [][CreatesInsideCurrent]_vars

\* Witness of C11: in the second course, a problem whose alias differs from
\* its sanitized form was extracted and entered in the manifest.
C11_Witness ==
    /\ ci = 2
    /\ last.called /\ last.raised = None
    /\ Extracted(last.response, last.disk_ok)
    /\ last.problem_alias = " p.2"
    /\ all_problems[Len(all_problems)].path =
          <<BASE_COURSE_FOLDER, COURSE_ALIASES[2], last.assignment_folder[3], "p2">>
    /\ all_problems[Len(all_problems)].path \in dirs
    /\ path_join(all_problems[Len(all_problems)].path, "statement.md") \in DOMAIN files

====
